---- MODULE Spec2Model ----
(***************************************************************************)
(* Model of the two notebooks of tensorflow_tutorial_2.ipynb: the input    *)
(* function dataset_input_fn (a numpy_input_fn: a feeder thread that       *)
(* enqueues row indices into a bounded queue, and a consumer that dequeues *)
(* batches), and the estimator calls train / evaluate / predict that       *)
(* consume it and read or write the checkpoints of the model directory.    *)
(*                                                                         *)
(* Row indices are 0-based as in the Python code; TLA+ sequences are       *)
(* 1-based, so row i of an array a is a[i + 1].                            *)
(***************************************************************************)
EXTENDS Integers, Sequences, FiniteSets, TLC

\* ---------------------------------------------------------------- bounds
MaxTrainRows == 2
MaxTestRows == 3
MaxBatch == 2
MaxSteps == 2
MaxGlobalStep == 3
MaxFeature == 1
QueueCapacity == 2

\* ------------------------------------------------------ program constants
\* num_epochs=None of the train split: no limit on the number of epochs
NoEpochLimit == 0
\* '_keep_checkpoint_max': 5 of the estimator's run config
KeepCheckpointMax == 5
\* number of classes of the bundle (newsgroups['labels'].shape[0])
num_classes == 2

VARIABLES
    op,               \* position of the notebook: "Unconfigured", "Idle", "Train", "Evaluate", "Predict"
    newsgroups,       \* the array bundle loaded by np.load
    batch_size,       \* the global batch_size
    call,             \* the estimator call in progress or last made
    it,               \* the input function's feeder and queue
    batch,            \* rows dequeued so far for the batch being assembled
    batches,          \* the batches handed to the consumer by the current call
    enqueued,         \* the rows the feeder has enqueued during the current call
    session,          \* parameters and global step of the running session
    model_dir,        \* the checkpoints of the model directory, oldest first
    metrics,          \* the streaming metric accumulators of evaluate
    eval_results,     \* what the last completed evaluate returned
    fresh,            \* the evaluate calls ended since the last train call: 0, 1, or 2 for more
    scored,           \* the state the last evaluate or predict since the last train restored
    model,            \* the estimator object: the model configuration
    test_predictions, \* what the last predict has yielded
    last_trained,     \* the session state after the last completed training step
    error             \* the exception the last call raised, or "none"

vars == <<op, newsgroups, batch_size, call, it, batch, batches, enqueued, session,
          model_dir, metrics, eval_results, fresh, scored, model, test_predictions,
          last_trained, error>>

\* ---------------------------------------------------------------- helpers
Min(a, b) == IF a <= b THEN a ELSE b

Last(s) == s[Len(s)]

RECURSIVE Flatten(_)
Flatten(ss) == IF ss = <<>> THEN <<>> ELSE Head(ss) \o Flatten(Tail(ss))

RECURSIVE SumSeq(_)
SumSeq(s) == IF s = <<>> THEN 0 ELSE Head(s) + SumSeq(Tail(s))

Count(s, x) == Cardinality({i \in 1..Len(s) : s[i] = x})

Splits == {"train", "test", "valid"}

\* A session holds the parameters and the global step. The parameters are opaque
\* and change once per training step, so within one model directory they are
\* identified by the number of updates applied: the global step.
NoSession == [active |-> FALSE, global_step |-> 0]

NoResults == [valid |-> FALSE, accuracy |-> <<0, 1>>, average_loss |-> <<0, 1>>,
              loss |-> <<0, 1>>, global_step |-> 0]

NoMetrics == [total |-> 0, count |-> 0, loss_sum |-> 0, steps |-> 0]

NoCall == [op |-> "none", dataset |-> "none", steps |-> 0, start_step |-> 0, updates |-> 0]

NoModel == [configured |-> FALSE, input_size |-> 0, n_classes |-> 0]

\* ------------------------------------------------------- dataset_input_fn
NoIter == [dataset |-> "none", num_epochs |-> NoEpochLimit, shuffle |-> FALSE,
           max |-> 1, trav |-> 0, epoch_end |-> 0, epoch |-> 0,
           pending |-> <<>>, queue |-> <<>>, closed |-> TRUE]

\* an assert that lets a third split name through
ValidDatasetAny(dataset) == dataset \in Splits

\* the assert of dataset_input_fn
ValidDataset(dataset) == dataset \in {"train", "test"}

Rows(dataset) ==
    IF dataset = "train" THEN Len(newsgroups.train_data) ELSE Len(newsgroups.test_data)

\* an input function that runs every split for one epoch
dataset_input_fn_one_epoch(dataset, start) ==
    [dataset |-> dataset, num_epochs |-> 1, shuffle |-> (dataset = "train"),
     max |-> Rows(dataset), trav |-> start, epoch_end |-> (start - 1) % Rows(dataset),
     epoch |-> 0, pending |-> <<>>, queue |-> <<>>, closed |-> FALSE]

\* an input function that shuffles every split
dataset_input_fn_shuffle_all(dataset, start) ==
    [dataset |-> dataset, num_epochs |-> IF dataset = "test" THEN 1 ELSE NoEpochLimit,
     shuffle |-> TRUE,
     max |-> Rows(dataset), trav |-> start, epoch_end |-> (start - 1) % Rows(dataset),
     epoch |-> 0, pending |-> <<>>, queue |-> <<>>, closed |-> FALSE]

\* The arguments dataset_input_fn passes to numpy_input_fn, and the feeder the
\* input function starts: it traverses the rows cyclically from `start` (a
\* random row when shuffling, row 0 otherwise) and an epoch ends at the row
\* before `start`.
dataset_input_fn(dataset, start) ==
    [dataset |-> dataset,
     num_epochs |-> IF dataset = "test" THEN 1 ELSE NoEpochLimit,
     shuffle |-> (dataset = "train"),
     max |-> Rows(dataset),
     trav |-> start,
     epoch_end |-> (start - 1) % Rows(dataset),
     epoch |-> 0,
     pending |-> <<>>,
     queue |-> <<>>,
     closed |-> FALSE]

Starts(dataset) == IF dataset = "train" THEN 0..(Rows(dataset) - 1) ELSE {0}

\* The feed function raises OutOfRangeError once num_epochs epochs were emitted.
OutOfRange(f) == f.num_epochs # NoEpochLimit /\ f.epoch >= f.num_epochs

\* positions of a batch of indices that hold the epoch's last row
EpochEnds(idx, epoch_end) == {i \in 1..Len(idx) : idx[i] = epoch_end}

\* the n-th smallest member of a set of positions
NthSmallest(S, n) == CHOOSE x \in S : Cardinality({y \in S : y <= x}) = n

\* a feeder that does not cut the batch that crosses the end of the final epoch
NextIndicesUntrimmed(f) ==
    LET idx == [j \in 1..batch_size |-> (f.trav + j - 1) % f.max]
    IN  [indices |-> idx, epoch |-> f.epoch + Cardinality(EpochEnds(idx, f.epoch_end))]

\* The next batch of row indices of the feeder: batch_size consecutive rows,
\* wrapping around, cut after the last row of the final epoch.
NextIndices(f) ==
    LET idx == [j \in 1..batch_size |-> (f.trav + j - 1) % f.max]
        ends == EpochEnds(idx, f.epoch_end)
        epoch == f.epoch + Cardinality(ends)
    IN  IF f.num_epochs = NoEpochLimit \/ epoch < f.num_epochs
        THEN [indices |-> idx, epoch |-> epoch]
        ELSE LET final == NthSmallest(ends, Cardinality(ends) - (epoch - f.num_epochs + 1) + 1)
             IN  [indices |-> SubSeq(idx, 1, final), epoch |-> epoch]

\* a feed function that resumes at the last row it fed instead of the next one
FeedFnOffByOne(f) ==
    LET nxt == NextIndices(f)
    IN  [f EXCEPT !.pending = nxt.indices,
                  !.epoch = nxt.epoch,
                  !.trav = Last(nxt.indices) % f.max]

\* One call of the feed function: the indices to enqueue and the new position.
FeedFn(f) ==
    LET nxt == NextIndices(f)
    IN  [f EXCEPT !.pending = nxt.indices,
                  !.epoch = nxt.epoch,
                  !.trav = (Last(nxt.indices) + 1) % f.max]

\* min_after_dequeue of the queue: capacity / 4 of the shuffling queue, 0 of
\* the FIFO queue
MinAfterDequeue(f) == IF f.shuffle THEN QueueCapacity \div 4 ELSE 0

\* a removal that drops the last element and keeps the one that was taken
RemoveAtKeeping(q, i) == SubSeq(q, 1, Len(q) - 1)

\* removal of element i from the shuffling queue: the last element takes its place
RemoveAt(q, i) == SubSeq([q EXCEPT ![i] = q[Len(q)]], 1, Len(q) - 1)

\* The ways to dequeue k elements: <<taken, rest>>. The FIFO queue has one,
\* the shuffling queue takes a random element each time.
RECURSIVE Takes(_, _, _)
Takes(q, k, shuffle) ==
    IF k = 0 THEN {<<(<<>>), q>>}
    ELSE IF shuffle
         THEN UNION {{<<(<<q[i]>>) \o t[1], t[2]>> : t \in Takes(RemoveAt(q, i), k - 1, shuffle)}
                      : i \in 1..Len(q)}
         ELSE {<<SubSeq(q, 1, k), SubSeq(q, k + 1, Len(q))>>}

\* how many elements a dequeue of the rest of the batch can take now
Available(f) == Min(batch_size - Len(batch), Len(f.queue) - MinAfterDequeue(f))

\* the queue is closed and drained: a dequeue can get nothing more
Drained(f) == f.closed /\ f.pending = <<>> /\ f.queue = <<>>

\* ---------------------------------------------------------- the estimator
\* The canned classifier is opaque: its predicted class and its loss are
\* deterministic functions of the parameters (w, the parameters after w
\* updates) and of the example.
PredictClass(w, x) == (w + x) % num_classes

ExampleLoss(w, x, y) == IF PredictClass(w, x) = y THEN 1 ELSE 2 + x

Feature(row) == newsgroups.test_data[row + 1]

Target(row) == newsgroups.test_target[row + 1]

Correct(w, rows) == Cardinality({i \in 1..Len(rows) : PredictClass(w, Feature(rows[i])) = Target(rows[i])})

BatchLoss(w, rows) == SumSeq([i \in 1..Len(rows) |-> ExampleLoss(w, Feature(rows[i]), Target(rows[i]))])

\* metrics that count a full batch for every step, also for a short final batch
UpdateMetricsFullBatch(m, w, rows) ==
    [total |-> m.total + Correct(w, rows),
     count |-> m.count + batch_size,
     loss_sum |-> m.loss_sum + BatchLoss(w, rows),
     steps |-> m.steps + 1]

\* the streaming metrics after one more batch of evaluate
UpdateMetrics(m, w, rows) ==
    [total |-> m.total + Correct(w, rows),
     count |-> m.count + Len(rows),
     loss_sum |-> m.loss_sum + BatchLoss(w, rows),
     steps |-> m.steps + 1]

\* the dict evaluate returns; a fraction is <<numerator, denominator>>
Results(m, s) ==
    [valid |-> TRUE,
     accuracy |-> <<m.total, m.count>>,
     average_loss |-> <<m.loss_sum, m.count>>,
     loss |-> <<m.loss_sum, m.steps>>,
     global_step |-> s.global_step]

Checkpoint(s) == [global_step |-> s.global_step]

\* the checkpoint saver: the new checkpoint becomes the latest and only the
\* KeepCheckpointMax most recent ones are kept
SaveCheckpoint(dir, s) ==
    LET all == IF dir # <<>> /\ Last(dir).global_step = s.global_step
               THEN dir ELSE Append(dir, Checkpoint(s))
    IN  IF Len(all) > KeepCheckpointMax THEN SubSeq(all, Len(all) - KeepCheckpointMax + 1, Len(all))
        ELSE all

\* the checkpoint saver of train saves after the first step of the call, when
\* its timer (save_checkpoints_secs) has expired, and at the end of the call
ShouldSave(first, timer, done) == first \/ timer \/ done

\* a stop condition that takes steps as the global step to reach
StopAtStepAbsolute(s, c) == s.global_step >= c.steps

\* train(steps=n) stops n steps after the global step it started from
StopAtStep(s, c) == s.global_step >= c.start_step + c.steps

\* an evaluate and a predict that leave a checkpoint of a further step behind
EvaluateSavesCheckpoint(dir, s) == Append(dir, [global_step |-> s.global_step + 1])

PredictSavesCheckpoint(dir, s) == Append(dir, [global_step |-> s.global_step + 1])

\* evaluate and predict restore a checkpoint and save none: the checkpoints of
\* the model directory after an evaluate call and after a predict call
EvaluateSaves(dir, s) == dir

PredictSaves(dir, s) == dir

\* a restore that reads the oldest checkpoint kept
OldestCheckpoint(dir) == Head(dir)

\* the checkpoint a session is restored from
LatestCheckpoint(dir) == Last(dir)

\* a restore that starts from the initial state whatever the directory holds
RestoreInitial(dir) == [active |-> TRUE, global_step |-> 0]

Restore(dir) ==
    [active |-> TRUE, global_step |-> LatestCheckpoint(dir).global_step]

\* ---------------------------------------------------------------- actions
Bundles ==
    {[train_data |-> [i \in 1..n |-> (i - 1) % (MaxFeature + 1)],
      train_target |-> [i \in 1..n |-> (i - 1) % num_classes],
      test_data |-> d, test_target |-> t] :
        n \in 1..MaxTrainRows,
        d \in {[i \in 1..m |-> (i - 1) % (MaxFeature + 1)] : m \in 1..MaxTestRows},
        t \in UNION {[1..m -> 0..(num_classes - 1)] : m \in 1..MaxTestRows}}

\* the state at the start of the notebook, over a set of bundles
InitOf(bundles) ==
    /\ op = "Unconfigured"
    /\ newsgroups \in bundles
    /\ batch_size \in 1..MaxBatch
    /\ call = NoCall
    /\ it = NoIter
    /\ batch = <<>>
    /\ batches = <<>>
    /\ enqueued = <<>>
    /\ session = NoSession
    /\ model_dir \in {<<>>, <<[global_step |-> 1]>>}
    /\ metrics = NoMetrics
    /\ eval_results = NoResults
    /\ fresh = 0
    /\ scored = NoSession
    /\ model = NoModel
    /\ test_predictions = <<>>
    /\ last_trained = NoSession
    /\ error = "none"

Init == InitOf({b \in Bundles : Len(b.test_data) = Len(b.test_target)})

\* the estimator is constructed from the bundle's dimensions
Configure ==
    /\ op = "Unconfigured"
    /\ op' = "Idle"
    /\ model' = [configured |-> TRUE, input_size |-> 1, n_classes |-> num_classes]
    /\ UNCHANGED <<newsgroups, batch_size, call, it, batch, batches, enqueued, session,
                   model_dir, metrics, eval_results, fresh, scored, test_predictions,
                   last_trained, error>>

\* a call that raises before the estimator does anything
Raise(name, dataset, steps, exc) ==
    /\ call' = [NoCall EXCEPT !.op = name, !.dataset = dataset, !.steps = steps]
    /\ error' = exc
    /\ batch' = <<>>
    /\ batches' = <<>>
    /\ enqueued' = <<>>
    /\ UNCHANGED <<op, newsgroups, batch_size, it, session, model_dir, metrics,
                   eval_results, fresh, scored, model, test_predictions, last_trained>>

\* a check of steps that lets 0 through
StepsRejectedNegative(steps) == steps < 0

\* train raises ValueError unless steps is positive
StepsRejected(steps) == steps <= 0

\* model.train(input_fn=dataset_input_fn(dataset), steps=steps)
Train(dataset, steps) ==
    /\ op = "Idle"
    /\ IF ~ValidDataset(dataset) THEN Raise("train", dataset, steps, "AssertionError")
       ELSE IF StepsRejected(steps) THEN Raise("train", dataset, steps, "ValueError")
       ELSE \E start \in Starts(dataset) :
            LET s == IF model_dir = <<>>
                     THEN [active |-> TRUE, global_step |-> 0]
                     ELSE Restore(model_dir)
            IN  /\ s.global_step + steps <= MaxGlobalStep
                /\ op' = "Train"
                /\ call' = [op |-> "train", dataset |-> dataset, steps |-> steps,
                            start_step |-> s.global_step, updates |-> 0]
                /\ it' = dataset_input_fn(dataset, start)
                /\ session' = s
                /\ batch' = <<>>
                /\ batches' = <<>>
                /\ enqueued' = <<>>
                /\ fresh' = 0
                /\ scored' = NoSession
                /\ error' = "none"
                /\ UNCHANGED <<newsgroups, batch_size, model_dir, metrics, eval_results,
                               model, test_predictions, last_trained>>

\* the feeder thread of the input function: one call of the feed function and
\* the enqueue of as many of its rows as the queue has room for
Feed ==
    /\ op \in {"Train", "Evaluate", "Predict"}
    /\ ~it.closed
    /\ IF it.pending = <<>> /\ OutOfRange(it)
       THEN /\ it' = [it EXCEPT !.closed = TRUE]
            /\ UNCHANGED enqueued
       ELSE LET fed == IF it.pending = <<>> THEN FeedFn(it) ELSE it
                k == Min(QueueCapacity - Len(fed.queue), Len(fed.pending))
            IN  /\ k >= 1
                /\ it' = [fed EXCEPT !.queue = @ \o SubSeq(fed.pending, 1, k),
                                     !.pending = SubSeq(fed.pending, k + 1, Len(fed.pending))]
                /\ enqueued' = enqueued \o SubSeq(fed.pending, 1, k)
    /\ UNCHANGED <<op, newsgroups, batch_size, call, batch, batches, session, model_dir,
                   metrics, eval_results, fresh, scored, model, test_predictions,
                   last_trained, error>>

\* the train split is dequeued with dequeue_many, the test split with dequeue_up_to
\* (which returns a short batch from a closed queue)
DequeueDone(f, rows) ==
    \/ Len(rows) = batch_size
    \/ f.num_epochs # NoEpochLimit /\ rows # <<>> /\ Drained(f)

\* one training step: a batch is dequeued, the parameters are updated, the
\* global step advances and the checkpoint saver runs; the last step ends the call
TrainStep ==
    /\ op = "Train"
    /\ Available(it) >= 1
    /\ \E t \in Takes(it.queue, Available(it), it.shuffle) :
        LET rows == batch \o t[1]
            f == [it EXCEPT !.queue = t[2]]
        IN  IF ~DequeueDone(f, rows)
            THEN /\ batch' = rows
                 /\ it' = f
                 /\ UNCHANGED <<op, call, batches, session, model_dir, last_trained>>
            ELSE \E timer \in BOOLEAN :
                 LET s == [active |-> TRUE, global_step |-> session.global_step + 1]
                     done == StopAtStep(s, call)
                     save == ShouldSave(call.updates = 0, timer, done)
                 IN  /\ batch' = <<>>
                     /\ batches' = Append(batches, rows)
                     /\ call' = [call EXCEPT !.updates = @ + 1]
                     /\ last_trained' = s
                     /\ model_dir' = IF save THEN SaveCheckpoint(model_dir, s) ELSE model_dir
                     /\ op' = IF done THEN "Idle" ELSE "Train"
                     /\ session' = IF done THEN NoSession ELSE s
                     /\ it' = IF done THEN NoIter ELSE f
    /\ UNCHANGED <<newsgroups, batch_size, enqueued, metrics, eval_results, fresh, scored,
                   model, test_predictions, error>>

\* model.evaluate / model.predict(input_fn=dataset_input_fn(dataset)): the
\* parameters are restored from the latest checkpoint of the model directory
Start(name, dataset) ==
    /\ op = "Idle"
    /\ IF ~ValidDataset(dataset) THEN Raise(name, dataset, 0, "AssertionError")
       ELSE IF model_dir = <<>> THEN Raise(name, dataset, 0, "ValueError")
       ELSE /\ op' = IF name = "evaluate" THEN "Evaluate" ELSE "Predict"
            /\ call' = [op |-> name, dataset |-> dataset, steps |-> 0,
                        start_step |-> Restore(model_dir).global_step, updates |-> 0]
            /\ it' = dataset_input_fn(dataset, 0)
            /\ session' = Restore(model_dir)
            /\ scored' = Restore(model_dir)
            /\ batch' = <<>>
            /\ batches' = <<>>
            /\ enqueued' = <<>>
            /\ metrics' = IF name = "evaluate" THEN NoMetrics ELSE metrics
            /\ test_predictions' = IF name = "predict" THEN <<>> ELSE test_predictions
            /\ error' = "none"
            /\ UNCHANGED <<newsgroups, batch_size, model_dir, eval_results, fresh, model,
                           last_trained>>

Evaluate(dataset) == Start("evaluate", dataset)

Predict(dataset) == Start("predict", dataset)

\* one evaluation step: a batch is dequeued and the metrics are updated; the
\* end of the input ends the call, which returns the metrics
EvalStep ==
    /\ op = "Evaluate"
    /\ Available(it) >= 1 \/ Drained(it)
    /\ \E t \in Takes(it.queue, IF Available(it) >= 1 THEN Available(it) ELSE 0, it.shuffle) :
        LET rows == batch \o t[1]
            f == [it EXCEPT !.queue = t[2]]
        IN  IF rows = <<>>
            THEN /\ eval_results' = Results(metrics, session)
                 /\ fresh' = Min(fresh + 1, 2)
                 /\ op' = "Idle"
                 /\ session' = NoSession
                 /\ it' = NoIter
                 /\ model_dir' = EvaluateSaves(model_dir, session)
                 /\ UNCHANGED <<batch, batches, metrics>>
            ELSE IF ~DequeueDone(f, rows)
            THEN /\ batch' = rows
                 /\ it' = f
                 /\ UNCHANGED <<op, batches, session, metrics, eval_results, fresh, model_dir>>
            ELSE /\ batch' = <<>>
                 /\ batches' = Append(batches, rows)
                 /\ metrics' = UpdateMetrics(metrics, session.global_step, rows)
                 /\ it' = f
                 /\ UNCHANGED <<op, session, eval_results, fresh, model_dir>>
    /\ UNCHANGED <<newsgroups, batch_size, call, enqueued, scored, model,
                   test_predictions, last_trained, error>>

\* one prediction step: a batch is dequeued and one class id per row is
\* yielded; the end of the input ends the generator
PredictStep ==
    /\ op = "Predict"
    /\ Available(it) >= 1 \/ Drained(it)
    /\ \E t \in Takes(it.queue, IF Available(it) >= 1 THEN Available(it) ELSE 0, it.shuffle) :
        LET rows == batch \o t[1]
            f == [it EXCEPT !.queue = t[2]]
        IN  IF rows = <<>>
            THEN /\ op' = "Idle"
                 /\ session' = NoSession
                 /\ it' = NoIter
                 /\ model_dir' = PredictSaves(model_dir, session)
                 /\ UNCHANGED <<batch, batches, test_predictions>>
            ELSE IF ~DequeueDone(f, rows)
            THEN /\ batch' = rows
                 /\ it' = f
                 /\ UNCHANGED <<op, batches, session, test_predictions, model_dir>>
            ELSE /\ batch' = <<>>
                 /\ batches' = Append(batches, rows)
                 /\ test_predictions' = test_predictions \o
                        [i \in 1..Len(rows) |-> PredictClass(session.global_step, Feature(rows[i]))]
                 /\ it' = f
                 /\ UNCHANGED <<op, session, model_dir>>
    /\ UNCHANGED <<newsgroups, batch_size, call, enqueued, metrics, eval_results,
                   fresh, scored, model, last_trained, error>>

Next ==
    \/ Configure
    \/ \E dataset \in Splits \ {"test"}, steps \in 0..MaxSteps : Train(dataset, steps)
    \/ \E dataset \in Splits \ {"train"} : Evaluate(dataset)
    \/ \E dataset \in Splits \ {"train"} : Predict(dataset)
    \/ Feed
    \/ TrainStep
    \/ EvalStep
    \/ PredictStep

Spec == Init /\ [][Next]_vars

\* The feeder is a running thread and the estimator's loop runs until it is
\* done: neither stops while it can take a step.
Fairness ==
    /\ WF_vars(Feed)
    /\ WF_vars(TrainStep)
    /\ WF_vars(EvalStep)
    /\ WF_vars(PredictStep)

\* the bundles with a single test row: the training calls
InitSmall == Init /\ Rows("test") = 1 /\ newsgroups.test_target[1] = 0

FairSpec == InitSmall /\ [][Next]_vars /\ Fairness

\* the bundles whose test targets are all class 0: the iterators
InitIter == Init /\ \A i \in 1..Rows("test") : newsgroups.test_target[i] = 0

SpecIter == InitIter /\ [][Next]_vars

\* the bundles with a single training row: the evaluate and predict calls
InitEval == Init /\ Rows("train") = 1

SpecEval == InitEval /\ [][Next]_vars

\* four rows of two binary features, here the number 2a + b, whose label is
\* the exclusive or of the features, as the test split
ExampleBundle ==
    [train_data |-> <<0>>, train_target |-> <<0>>,
     test_data |-> <<0, 1, 2, 3>>, test_target |-> <<0, 1, 1, 0>>]

\* the bundles with a single training row and test targets all of class 0, and
\* the example bundle: the batches of the unshuffled iterator
InitBatch ==
    InitOf({b \in Bundles : /\ Len(b.test_data) = Len(b.test_target)
                            /\ Len(b.train_data) = 1
                            /\ \A i \in 1..Len(b.test_target) : b.test_target[i] = 0}
           \cup {ExampleBundle})

SpecBatch == InitBatch /\ [][Next]_vars


\* --------------------------------------------------------------- properties
\* the samples handed to the consumer by the current call, in order
Yielded == Flatten(batches)

\* the rows of a split in stored order
StoredOrder(dataset) == [i \in 1..Rows(dataset) |-> i - 1]

IsPrefix(s, t) == Len(s) <= Len(t) /\ SubSeq(t, 1, Len(s)) = s

\* s holds every row of the split exactly once
IsPermutation(s, dataset) ==
    /\ Len(s) = Rows(dataset)
    /\ \A r \in 0..(Rows(dataset) - 1) : Count(s, r) = 1

\* the k-th full pass of a sequence of samples of a split
Pass(s, k, dataset) == SubSeq(s, (k - 1) * Rows(dataset) + 1, k * Rows(dataset))

Passes(s, dataset) == 1..(Len(s) \div Rows(dataset))

\* C1: a call given a split other than "train" and "test" fails with the
\* assertion's error before anything is fed, queued or yielded: no feeder is
\* started, nothing is enqueued and no batch is produced.
C1_InvalidSplitFails ==
    (call.op # "none" /\ call.dataset \notin {"train", "test"}) =>
        /\ error = "AssertionError"
        /\ op = "Idle"
        /\ it = NoIter
        /\ batches = <<>>
        /\ batch = <<>>
        /\ enqueued = <<>>

C1_Witness ==
    /\ call.op = "evaluate"
    /\ call.dataset = "valid"
    /\ error = "AssertionError"
    /\ model_dir # <<>>

C3_TrainNeverExhausts ==
    /\ op = "Train" =>
        /\ ~it.closed
        /\ ~OutOfRange(it)
        /\ ENABLED (Feed \/ TrainStep)
        /\ \A i \in 1..Len(batches) : Len(batches[i]) = batch_size
    /\ (call.op = "train" /\ error = "none" /\ op = "Idle") =>
        Len(Yielded) = call.steps * batch_size

C3_Witness ==
    /\ call.op = "train"
    /\ error = "none"
    /\ op = "Idle"
    /\ Len(Yielded) > Rows("train")
    /\ Rows("train") > 1

C5_TrainConsumesSteps ==
    /\ [](call.op = "train" /\ error = "none" =>
            /\ Len(batches) = call.updates
            /\ call.updates <= call.steps
            /\ op = "Train" => call.updates < call.steps
            /\ op = "Idle" =>
                /\ call.updates = call.steps
                /\ last_trained.global_step = call.start_step + call.steps)
    /\ [](call.op = "train" /\ error = "ValueError" =>
            call.steps = 0 /\ batches = <<>> /\ call.updates = 0 /\ op = "Idle")
    /\ (op = "Train") ~> (op = "Idle")

C5_Witness ==
    /\ call.op = "train"
    /\ error = "none"
    /\ op = "Idle"
    /\ call.steps = 2
    /\ call.start_step = 1
    /\ batch_size = 2
    /\ Rows("train") = 2

\* the rows of the test split the parameters w classify correctly
CorrectRows(w) == {r \in 0..(Rows("test") - 1) : PredictClass(w, Feature(r)) = Target(r)}

\* equality of two fractions <<numerator, denominator>>
FracEq(a, b) == a[1] * b[2] = b[1] * a[2]

\* C6: an evaluate call that has ended has consumed the whole test split once,
\* and its accuracy is the number of test rows whose predicted class is the
\* true class over the number of test rows, the rows of a short final batch
\* included.
C6_AccuracyOverAllRows ==
    (call.op = "evaluate" /\ error = "none" /\ op = "Idle") =>
        /\ Yielded = StoredOrder("test")
        /\ eval_results.valid
        /\ eval_results.accuracy[2] > 0
        /\ FracEq(eval_results.accuracy,
                  <<Cardinality(CorrectRows(scored.global_step)), Rows("test")>>)

C6_Witness ==
    /\ call.op = "evaluate"
    /\ error = "none"
    /\ op = "Idle"
    /\ Len(batches) = 2
    /\ Len(batches[2]) < batch_size
    /\ eval_results.accuracy[1] > 0
    /\ eval_results.accuracy[1] < eval_results.accuracy[2]

\* C7: after a train call, an evaluate call scores the state of the last
\* completed training step: the session it restores has the global step (and so
\* the parameters) of that step, and the results carry that global step.
C7_EvaluateScoresLastStep ==
    (call.op = "evaluate" /\ error = "none" /\ last_trained.active) =>
        /\ scored = last_trained
        /\ op = "Evaluate" => session = last_trained
        /\ op = "Idle" => eval_results.global_step = last_trained.global_step

C7_Witness ==
    /\ call.op = "evaluate"
    /\ error = "none"
    /\ op = "Idle"
    /\ Len(model_dir) >= 2
    /\ last_trained.global_step = 3

\* C8: a predict call yields one class per test row in stored order: what it
\* has yielded so far are the predictions of the first rows, and when it has
\* ended there is one prediction per row, the i-th being that of row i.
C8_PredictionsPairWithRows ==
    (call.op = "predict" /\ error = "none") =>
        /\ Len(test_predictions) <= Rows("test")
        /\ \A i \in 1..Len(test_predictions) :
             test_predictions[i] = PredictClass(scored.global_step, newsgroups.test_data[i])
        /\ op = "Idle" => Len(test_predictions) = Rows("test")

C8_Witness ==
    /\ call.op = "predict"
    /\ error = "none"
    /\ op = "Idle"
    /\ Len(test_predictions) = 3
    /\ test_predictions[1] # test_predictions[2]
    /\ Len(batches) = 2

SameResults(a, b) ==
    /\ FracEq(a.accuracy, b.accuracy)
    /\ FracEq(a.average_loss, b.average_loss)
    /\ FracEq(a.loss, b.loss)
    /\ a.global_step = b.global_step

\* C9: an evaluate call that ends when the previous results were computed
\* after the last train call returns the same accuracy, losses and global step
\* as those previous results.
C9_EvaluateRepeats ==
    [][(op = "Evaluate" /\ op' = "Idle" /\ fresh >= 1) => SameResults(eval_results', eval_results)]_vars

\* a second evaluate has ended with no train since the first
C9_Witness ==
    /\ call.op = "evaluate"
    /\ error = "none"
    /\ op = "Idle"
    /\ fresh = 2
    /\ eval_results.valid
    /\ Len(batches) = 3
    /\ last_trained.active
    /\ eval_results.accuracy[1] = 1

\* C10: every step of an evaluate or predict call is taken by a configured
\* estimator and leaves the checkpoints of the model directory, the last
\* trained state, the model configuration and the array bundle unchanged, and
\* a call that follows another evaluate or predict with no train in between
\* restores the state that one restored.
C10_EvaluatePredictReadOnly ==
    [][call'.op \in {"evaluate", "predict"} =>
        /\ model.configured
        /\ UNCHANGED <<model_dir, last_trained, model, newsgroups, batch_size>>
        /\ scored.active => scored' = scored]_vars

\* a predict has ended after an evaluate, both after the last train
C10_Witness ==
    /\ call.op = "predict"
    /\ error = "none"
    /\ op = "Idle"
    /\ fresh >= 1
    /\ last_trained.active
    /\ Len(test_predictions) = Rows("test")

\* the rows of the i-th batch of a pass over a split in stored order
StoredBatch(i, dataset) ==
    [j \in 1..Min(batch_size, Rows(dataset) - (i - 1) * batch_size) |-> (i - 1) * batch_size + j - 1]

\* the number of batches of a pass over a split
BatchesOfPass(dataset) == (Rows(dataset) + batch_size - 1) \div batch_size

\* the labels handed over with a batch of test rows
BatchLabels(rows) == [i \in 1..Len(rows) |-> Target(rows[i])]

\* C11: the pass of the unshuffled iterator (the test split, consumed by
\* evaluate and predict) is the stored order cut into consecutive batches of
\* batch_size rows, the last one holding the remaining rows; the rows being
\* dequeued continue the stored order; when the call has ended all batches of
\* the pass were handed over; and over the example bundle with batch size 2
\* these are rows 0-1 with labels 0,1 and rows 2-3 with labels 1,0.
C11_UnshuffledPassInBatches ==
    (call.op \in {"evaluate", "predict"} /\ error = "none") =>
        /\ Len(batches) <= BatchesOfPass("test")
        /\ \A i \in 1..Len(batches) : batches[i] = StoredBatch(i, "test")
        /\ Len(batch) < batch_size
        /\ IsPrefix(batch, StoredBatch(Len(batches) + 1, "test"))
        /\ op = "Idle" => Len(batches) = BatchesOfPass("test")
        /\ (op = "Idle" /\ newsgroups = ExampleBundle /\ batch_size = 2) =>
            /\ batches = << <<0, 1>>, <<2, 3>> >>
            /\ BatchLabels(batches[1]) = <<0, 1>>
            /\ BatchLabels(batches[2]) = <<1, 0>>

\* the pass over the four rows of the example bundle in batches of 2 has ended
C11_Witness ==
    /\ call.op = "evaluate"
    /\ error = "none"
    /\ op = "Idle"
    /\ newsgroups = ExampleBundle
    /\ batch_size = 2
    /\ Len(batches) = 2

\* a pass whose final batch is short has ended
C11_ShortFinalBatch ==
    /\ call.op = "predict"
    /\ error = "none"
    /\ op = "Idle"
    /\ Len(batches) = 2
    /\ Len(batches[2]) = 1
    /\ Len(batches[1]) = 2

\* a step that calls train on the train split for 0 steps
TrainZeroSteps ==
    /\ op = "Idle"
    /\ call'.op = "train"
    /\ call'.dataset = "train"
    /\ call'.steps = 0

\* what a train call for 0 steps leaves alone: the checkpoints, the last
\* trained state, and no session, feeder, batch or update
ZeroStepsFrame ==
    /\ op' = "Idle"
    /\ UNCHANGED <<model_dir, last_trained, session, it, newsgroups, model>>
    /\ batches' = <<>>
    /\ batch' = <<>>
    /\ enqueued' = <<>>
    /\ call'.updates = 0

\* C12 as stated: train for 0 steps completes without error, consumes no batch,
\* applies no update and leaves the trained model state unchanged.
C12_ZeroStepsCompletes ==
    [][TrainZeroSteps => (error' = "none" /\ ZeroStepsFrame)]_vars

\* C12 amended: train for 0 steps is rejected with a ValueError before any
\* batch is consumed; it applies no update and leaves the trained model state
\* unchanged.
C12_ZeroStepsRejected ==
    [][TrainZeroSteps => (error' = "ValueError" /\ ZeroStepsFrame)]_vars

C12_Witness ==
    /\ call.op = "train"
    /\ call.dataset = "train"
    /\ call.steps = 0
    /\ error = "ValueError"
    /\ op = "Idle"
    /\ last_trained.active
    /\ model_dir # <<>>

\* the global step of the newest checkpoint of a model directory, 0 when empty
LatestStep(dir) == IF dir = <<>> THEN 0 ELSE dir[Len(dir)].global_step

\* C13: a train call that finds a checkpoint starts from its global step g, a
\* train call that ends has applied `steps` updates and leaves the newest
\* checkpoint at g + steps, an evaluate or predict call restores the newest
\* checkpoint, and the global step of the newest checkpoint never decreases.
C13_TrainResumesFromCheckpoint ==
    [][/\ (op = "Idle" /\ op' = "Train") =>
            /\ session'.global_step = LatestStep(model_dir)
            /\ call'.start_step = LatestStep(model_dir)
       /\ (op = "Train" /\ op' = "Idle") =>
            /\ LatestStep(model_dir') = call.start_step + call.steps
            /\ last_trained'.global_step = call.start_step + call.steps
            /\ call'.updates = call.steps
       /\ (op = "Idle" /\ op' \in {"Evaluate", "Predict"}) =>
            scored'.global_step = LatestStep(model_dir)
       /\ LatestStep(model_dir') >= LatestStep(model_dir)]_vars

\* an evaluate has scored step 3 of a directory that held a checkpoint of step 1
\* when the notebook started
C13_Witness ==
    /\ call.op = "evaluate"
    /\ error = "none"
    /\ op = "Idle"
    /\ model_dir # <<>>
    /\ model_dir[1].global_step = 1
    /\ Len(model_dir) = 3
    /\ LatestStep(model_dir) = 3
    /\ eval_results.global_step = 3
    /\ last_trained.global_step = 3

====
